---- MODULE Spec2Model ----
(***************************************************************************)
(* Model of src/minesweeper.py: the Minesweeper board (ground truth), the  *)
(* Sentence constraint type and the MinesweeperAI knowledge engine.        *)
(*                                                                         *)
(* A cell is a pair <<i, j>> with 0 <= i < height and 0 <= j < width.      *)
(* A Sentence is a record [cells |-> set of cells, count |-> integer].     *)
(* The knowledge base is the Python list self.knowledge, a sequence of     *)
(* sentences that are narrowed in place and extended by append.            *)
(*                                                                         *)
(* add_knowledge is split at the points where its loop calls mark_safe /   *)
(* mark_mine and where a resolution pass ends, so that the intermediate    *)
(* states of the fixpoint loop are states of the model.                    *)
(***************************************************************************)
EXTENDS Integers, Sequences, FiniteSets, TLC

(* ------------------------------ bounds --------------------------------- *)

\* largest board height / width drawn at construction
MaxHeight == 2
MaxWidth == 3
\* number of add_knowledge calls a truthful driver makes in one behaviour
MaxObs == 3
\* the unconstrained driver: largest board side, largest count passed to
\* add_knowledge, and number of calls (add_knowledge, mark_safe, mark_mine)
MaxSide == 2
MaxCount == 2
MaxCalls == 3
\* largest knowledge base the model follows; a resolution pass that would
\* grow self.knowledge beyond it is not taken
MaxKB == 16

VARIABLES
  height,          \* MinesweeperAI.height (= Minesweeper.height)
  width,           \* MinesweeperAI.width  (= Minesweeper.width)
  board,           \* Minesweeper.mines: the cells that really hold a mine
  moves_made,      \* MinesweeperAI.moves_made
  mines,           \* MinesweeperAI.mines
  safes,           \* MinesweeperAI.safes
  knowledge,       \* MinesweeperAI.knowledge
  pc,              \* position inside add_knowledge ("idle" between calls)
  idx,             \* index of `sentence` in `for sentence in list(self.knowledge)`
  pending,         \* cells of the .copy() still to be iterated
  new_info_found,  \* local flag of the while loop
  nobs,            \* add_knowledge calls made so far
  nrep,            \* direct mark_safe / mark_mine calls made so far
  last             \* the last call of the driver and what it returned

vars == <<height, width, board, moves_made, mines, safes, knowledge,
          pc, idx, pending, new_info_found, nobs, nrep, last>>

engine == <<moves_made, mines, safes, knowledge>>

\* Python's None, as a returned cell
NoCell == <<>>

Cells == (0 .. height - 1) \X (0 .. width - 1)

(* ------------------------- Minesweeper (board) ------------------------- *)

is_mine(cell) == cell \in board

nearby_mines(cell) ==
  Cardinality({c \in (cell[1] - 1 .. cell[1] + 1) \X (cell[2] - 1 .. cell[2] + 1) :
                 /\ c # cell
                 /\ 0 <= c[1] /\ c[1] < height
                 /\ 0 <= c[2] /\ c[2] < width
                 /\ c \in board})

(* ------------------------------ Sentence ------------------------------- *)

Sentence(cells, count) == [cells |-> cells, count |-> count]

\* the result of known_mines / known_safes: the cell set, or None
NoConclusion == [defined |-> FALSE, cells |-> {}]
Conclusion(cells) == [defined |-> TRUE, cells |-> cells]

\* bool(x) of a returned set-or-None: None and the empty set are false
Truthy(r) == r.defined /\ r.cells # {}

\* variant: any positive count is taken to mean that every cell is a mine
known_mines_positive(s) ==
  IF s.count > 0 THEN Conclusion(s.cells) ELSE NoConclusion

\* variant: a sentence without cells gives None
known_mines_nonempty(s) ==
  IF s.count = Cardinality(s.cells) /\ s.cells # {}
    THEN Conclusion(s.cells)
    ELSE NoConclusion

known_mines(s) ==
  IF s.count = Cardinality(s.cells) THEN Conclusion(s.cells) ELSE NoConclusion

\* variant: the test of known_mines pasted into known_safes
known_safes_full(s) ==
  IF s.count = Cardinality(s.cells) THEN Conclusion(s.cells) ELSE NoConclusion

known_safes(s) ==
  IF s.count = 0 THEN Conclusion(s.cells) ELSE NoConclusion

\* variant: the cell is removed but the count is not reduced
Sentence_mark_mine_keepcount(s, cell) ==
  IF cell \in s.cells
    THEN [cells |-> s.cells \ {cell}, count |-> s.count]
    ELSE s

\* variant: the count is reduced whether or not the cell is in the sentence
Sentence_mark_mine_always(s, cell) ==
  [cells |-> s.cells \ {cell}, count |-> s.count - 1]

Sentence_mark_mine(s, cell) ==
  IF cell \in s.cells
    THEN [cells |-> s.cells \ {cell}, count |-> s.count - 1]
    ELSE s

\* variant: the body of mark_mine pasted into mark_safe
Sentence_mark_safe_counts(s, cell) ==
  IF cell \in s.cells
    THEN [cells |-> s.cells \ {cell}, count |-> s.count - 1]
    ELSE s

Sentence_mark_safe(s, cell) ==
  IF cell \in s.cells
    THEN [cells |-> s.cells \ {cell}, count |-> s.count]
    ELSE s

(* ---------------------------- MinesweeperAI ---------------------------- *)

\* the `for sentence in self.knowledge` loops of mark_mine / mark_safe
mark_mine_all(kb, cell) == [k \in 1 .. Len(kb) |-> Sentence_mark_mine(kb[k], cell)]

mark_safe_all(kb, cell) == [k \in 1 .. Len(kb) |-> Sentence_mark_safe(kb[k], cell)]

\* MinesweeperAI.mark_mine / mark_safe as functions of the engine state
mark_mine(e, cell) ==
  [e EXCEPT !.mines = @ \cup {cell}, !.knowledge = mark_mine_all(@, cell)]

\* variant: a cell reported safe is taken out of self.mines
mark_safe_exclusive(e, cell) ==
  [e EXCEPT !.safes = @ \cup {cell}, !.mines = @ \ {cell},
            !.knowledge = mark_safe_all(@, cell)]

mark_safe(e, cell) ==
  [e EXCEPT !.safes = @ \cup {cell}, !.knowledge = mark_safe_all(@, cell)]

Engine == [moves_made |-> moves_made, mines |-> mines, safes |-> safes,
           knowledge |-> knowledge]

SetEngine(e) ==
  /\ moves_made' = e.moves_made
  /\ mines' = e.mines
  /\ safes' = e.safes
  /\ knowledge' = e.knowledge

\* variant: only the cells in the same row or column
neighbors_orthogonal(cell) ==
  {c \in (cell[1] - 1 .. cell[1] + 1) \X (cell[2] - 1 .. cell[2] + 1) :
     /\ 0 <= c[1] /\ c[1] < height
     /\ 0 <= c[2] /\ c[2] < width
     /\ c # cell
     /\ (c[1] = cell[1] \/ c[2] = cell[2])}

\* variant: the test (i,j) != cell is left out
neighbors_with_cell(cell) ==
  {c \in (cell[1] - 1 .. cell[1] + 1) \X (cell[2] - 1 .. cell[2] + 1) :
     /\ 0 <= c[1] /\ c[1] < height
     /\ 0 <= c[2] /\ c[2] < width}

\* the neighbours collected by add_knowledge step 3
neighbors(cell) ==
  {c \in (cell[1] - 1 .. cell[1] + 1) \X (cell[2] - 1 .. cell[2] + 1) :
     /\ 0 <= c[1] /\ c[1] < height
     /\ 0 <= c[2] /\ c[2] < width
     /\ c # cell}

\* a call of the driver: the method, its arguments, what it returned,
\* whether it repeats the call before it (same method, same cell) and, for
\* add_knowledge, the knowledge base its while loop was started on
Call(op, cell, count, ret) ==
  [op |-> op, cell |-> cell, count |-> count, ret |-> ret,
   again |-> (last.op = op /\ last.cell = cell), kb |-> <<>>]

\* variant: step 2, self.mark_safe(cell), is left out
AddKnowledge_nosafe(cell, count) ==
  /\ pc = "idle"
  /\ LET e1 == [Engine EXCEPT !.moves_made = @ \cup {cell}]
         e3 == [e1 EXCEPT !.knowledge = Append(@, Sentence(neighbors(cell), count))]
     IN  /\ SetEngine(e3)
         /\ last' = [Call("add_knowledge", cell, count, NoCell)
                       EXCEPT !.kb = e3.knowledge]
  /\ pc' = "scan"
  /\ idx' = 1
  /\ new_info_found' = FALSE
  /\ pending' = {}
  /\ nobs' = nobs + 1
  /\ UNCHANGED <<height, width, board, nrep>>

\* add_knowledge up to the start of `while True`
AddKnowledge(cell, count) ==
  /\ pc = "idle"
  /\ LET e1 == [Engine EXCEPT !.moves_made = @ \cup {cell}]
         e2 == mark_safe(e1, cell)
         e3 == [e2 EXCEPT !.knowledge = Append(@, Sentence(neighbors(cell), count))]
     IN  /\ SetEngine(e3)
         /\ last' = [Call("add_knowledge", cell, count, NoCell)
                       EXCEPT !.kb = e3.knowledge]
  /\ pc' = "scan"
  /\ idx' = 1
  /\ new_info_found' = FALSE
  /\ pending' = {}
  /\ nobs' = nobs + 1
  /\ UNCHANGED <<height, width, board, nrep>>

\* where the for loop over list(self.knowledge) goes after a sentence
NextSentence ==
  IF idx < Len(knowledge)
    THEN pc' = "scan" /\ idx' = idx + 1
    ELSE pc' = "resolve" /\ idx' = 0

\* `if sentence.known_safes():`
ScanSafes ==
  /\ pc = "scan"
  /\ IF Truthy(known_safes(knowledge[idx]))
       THEN /\ new_info_found' = TRUE
            /\ pending' = known_safes(knowledge[idx]).cells
            /\ pc' = "safes"
       ELSE /\ pc' = "chk_mines"
            /\ UNCHANGED <<new_info_found, pending>>
  /\ UNCHANGED <<height, width, board, engine, idx, nobs, nrep, last>>

\* one iteration of `for s in sentence.known_safes().copy(): self.mark_safe(s)`
MarkSafeStep ==
  /\ pc = "safes"
  /\ \E s \in pending :
       /\ SetEngine(mark_safe(Engine, s))
       /\ pending' = pending \ {s}
       /\ pc' = IF pending \ {s} = {} THEN "chk_mines" ELSE "safes"
  /\ UNCHANGED <<height, width, board, idx, new_info_found, nobs, nrep, last>>

\* `if sentence.known_mines():`
ScanMines ==
  /\ pc = "chk_mines"
  /\ IF Truthy(known_mines(knowledge[idx]))
       THEN /\ new_info_found' = TRUE
            /\ pending' = known_mines(knowledge[idx]).cells
            /\ pc' = "mines"
            /\ idx' = idx
       ELSE /\ NextSentence
            /\ UNCHANGED <<new_info_found, pending>>
  /\ UNCHANGED <<height, width, board, engine, nobs, nrep, last>>

\* one iteration of `for m in sentence.known_mines().copy(): self.mark_mine(m)`
MarkMineStep ==
  /\ pc = "mines"
  /\ \E m \in pending :
       /\ SetEngine(mark_mine(Engine, m))
       /\ pending' = pending \ {m}
       /\ IF pending \ {m} = {}
            THEN NextSentence
            ELSE pc' = "mines" /\ idx' = idx
  /\ UNCHANGED <<height, width, board, new_info_found, nobs, nrep, last>>

\* variant: the membership test is dropped
NotInKnowledge_always(s, kb) == TRUE

\* `new_sentence not in self.knowledge`, by Sentence.__eq__
NotInKnowledge(s, kb) == \A k \in 1 .. Len(kb) : kb[k] # s

\* Sentence(s1.cells.difference(s2.cells), s1.count - s2.count)
Resolvent(s1, s2) == Sentence(s1.cells \ s2.cells, s1.count - s2.count)

\* the pairs (s1, s2) of the nested loops, in the order the loops visit them
Pairs(kb) ==
  [k \in 1 .. Len(kb) * Len(kb) |->
     <<((k - 1) \div Len(kb)) + 1, ((k - 1) % Len(kb)) + 1>>]

\* variant: each pair of sentences is only tried in list order
Infers_ordered(kb, p) ==
  /\ p[1] < p[2]
  /\ kb[p[1]] # kb[p[2]]
  /\ kb[p[2]].cells \subseteq kb[p[1]].cells
  /\ NotInKnowledge(Resolvent(kb[p[1]], kb[p[2]]), kb)

\* the pairs for which the loop body appends to newly_inferred
Infers(kb, p) ==
  /\ kb[p[1]] # kb[p[2]]
  /\ kb[p[2]].cells \subseteq kb[p[1]].cells
  /\ NotInKnowledge(Resolvent(kb[p[1]], kb[p[2]]), kb)

newly_inferred(kb) ==
  LET sel == SelectSeq(Pairs(kb), LAMBDA p : Infers(kb, p))
  IN  [k \in 1 .. Len(sel) |-> Resolvent(kb[sel[k][1]], kb[sel[k][2]])]

\* variant: the loop ends as soon as a pass infers no new sentence, whatever
\* the pass has marked
Resolve_ignores_flag ==
  /\ pc = "resolve"
  /\ Len(knowledge) + Len(newly_inferred(knowledge)) <= MaxKB
  /\ knowledge' = knowledge \o newly_inferred(knowledge)
  /\ IF newly_inferred(knowledge) # <<>>
       THEN pc' = "scan" /\ idx' = 1
       ELSE pc' = "idle" /\ idx' = 0
  /\ new_info_found' = FALSE
  /\ pending' = {}
  /\ UNCHANGED <<height, width, board, moves_made, mines, safes, nobs, nrep, last>>

\* step 5 of one pass and the test that ends the while loop
Resolve ==
  /\ pc = "resolve"
  /\ Len(knowledge) + Len(newly_inferred(knowledge)) <= MaxKB
  /\ knowledge' = knowledge \o newly_inferred(knowledge)
  /\ IF new_info_found \/ newly_inferred(knowledge) # <<>>
       THEN pc' = "scan" /\ idx' = 1
       ELSE pc' = "idle" /\ idx' = 0
  /\ new_info_found' = FALSE
  /\ pending' = {}
  /\ UNCHANGED <<height, width, board, moves_made, mines, safes, nobs, nrep, last>>

\* the steps of the while loop of add_knowledge
Loop == ScanSafes \/ MarkSafeStep \/ ScanMines \/ MarkMineStep \/ Resolve

\* variant: the filter on self.moves_made is dropped
make_safe_move_any ==
  IF safes = {} THEN {NoCell} ELSE safes

\* variant: the returned cell is recorded as played
MakeSafeMove_records ==
  /\ pc = "idle"
  /\ \E r \in (IF safes \ moves_made = {} THEN {NoCell} ELSE safes \ moves_made) :
       /\ last' = Call("make_safe_move", NoCell, -1, r)
       /\ moves_made' = IF r = NoCell THEN moves_made ELSE moves_made \cup {r}
  /\ UNCHANGED <<height, width, board, mines, safes, knowledge, pc, idx, pending,
                 new_info_found, nobs, nrep>>

\* what make_safe_move can return: the first cell of self.safes, in the
\* set's iteration order, that is not in self.moves_made
make_safe_move ==
  IF safes \ moves_made = {} THEN {NoCell} ELSE safes \ moves_made

MakeSafeMove ==
  /\ pc = "idle"
  /\ \E r \in make_safe_move : last' = Call("make_safe_move", NoCell, -1, r)
  /\ UNCHANGED <<height, width, board, engine, pc, idx, pending,
                 new_info_found, nobs, nrep>>

\* variant: cells known to be mines are not excluded
possible_moves_nomines == {cell \in Cells : cell \notin moves_made}

\* what make_random_move can return
possible_moves == {cell \in Cells : cell \notin moves_made /\ cell \notin mines}

make_random_move ==
  IF possible_moves # {} THEN possible_moves ELSE {NoCell}

MakeRandomMove ==
  /\ pc = "idle"
  /\ \E r \in make_random_move : last' = Call("make_random_move", NoCell, -1, r)
  /\ UNCHANGED <<height, width, board, engine, pc, idx, pending,
                 new_info_found, nobs, nrep>>

\* a direct call of MinesweeperAI.mark_safe / mark_mine by the driver
ReportSafe(cell) ==
  /\ pc = "idle"
  /\ SetEngine(mark_safe(Engine, cell))
  /\ nrep' = nrep + 1
  /\ last' = Call("mark_safe", cell, -1, NoCell)
  /\ UNCHANGED <<height, width, board, pc, idx, pending, new_info_found, nobs>>

ReportMine(cell) ==
  /\ pc = "idle"
  /\ SetEngine(mark_mine(Engine, cell))
  /\ nrep' = nrep + 1
  /\ last' = Call("mark_mine", cell, -1, NoCell)
  /\ UNCHANGED <<height, width, board, pc, idx, pending, new_info_found, nobs>>

(* --------------------------- specifications ---------------------------- *)

\* MinesweeperAI.__init__
NewEngine ==
  /\ moves_made = {}
  /\ mines = {}
  /\ safes = {}
  /\ knowledge = <<>>
  /\ pc = "idle"
  /\ idx = 0
  /\ pending = {}
  /\ new_info_found = FALSE
  /\ nobs = 0
  /\ nrep = 0
  /\ last = [op |-> "init", cell |-> NoCell, count |-> -1, ret |-> NoCell,
             again |-> FALSE, kb |-> <<>>]

\* a game: any board up to MaxHeight x MaxWidth with any mine placement
Init ==
  /\ height \in 1 .. MaxHeight
  /\ width \in 1 .. MaxWidth
  /\ board \in SUBSET ((0 .. height - 1) \X (0 .. width - 1))
  /\ NewEngine

\* the driver reveals a cell that is not a mine and feeds its true count
Play ==
  \E cell \in Cells :
    /\ nobs < MaxObs
    /\ ~is_mine(cell)
    /\ AddKnowledge(cell, nearby_mines(cell))

Next == Play \/ Loop \/ MakeSafeMove \/ MakeRandomMove

Spec == Init /\ [][Next]_vars

\* add_knowledge runs its loop to completion once called
LiveSpec == Spec /\ WF_vars(Loop)

\* a driver that is not bound to any ground truth: any cell of a board of up
\* to MaxSide x MaxSide with any count up to MaxCount, and direct calls of
\* mark_safe / mark_mine
InitAny ==
  /\ height \in 1 .. MaxSide
  /\ width \in 1 .. MaxSide
  /\ board = {}
  /\ NewEngine

Observe ==
  /\ nobs + nrep < MaxCalls
  /\ \E cell \in Cells : \E count \in 0 .. MaxCount : AddKnowledge(cell, count)

Report ==
  /\ nobs + nrep < MaxCalls
  /\ \E cell \in Cells : ReportSafe(cell) \/ ReportMine(cell)

NextAny == Observe \/ Loop \/ MakeSafeMove \/ MakeRandomMove \/ Report

AnySpec == InitAny /\ [][NextAny]_vars

LiveAnySpec == AnySpec /\ WF_vars(Loop)

\* the 3x3 game whose only mine is (2,2), played truthfully
InitScenario ==
  /\ height = 3
  /\ width = 3
  /\ board = {<<2, 2>>}
  /\ NewEngine

ScenarioSpec == InitScenario /\ [][Next]_vars

\* 3x3 games with a single mine, played truthfully
InitResolution ==
  /\ height = 3
  /\ width = 3
  /\ \E m \in (0 .. 2) \X (0 .. 2) : board = {m}
  /\ NewEngine

ResolutionSpec == InitResolution /\ [][Next]_vars

(* ------------------------------ properties ----------------------------- *)

\* C1 (soundness): under truthful observations every sentence of the
\* knowledge base, at every step of every add_knowledge call, has a count
\* equal to the number of mined cells among its cells.
Soundness ==
  \A k \in 1 .. Len(knowledge) :
    knowledge[k].count = Cardinality(knowledge[k].cells \cap board)

\* inside a call: a derived sentence is held, a mine has been marked and an
\* undecided sentence with a mine in it is left
SoundnessWitness ==
  /\ pc # "idle"
  /\ Len(knowledge) > nobs
  /\ mines # {}
  /\ \E k \in 1 .. Len(knowledge) :
       knowledge[k].count > 0 /\ Cardinality(knowledge[k].cells) > knowledge[k].count

\* C2 (the safe move is safe): under truthful observations every cell of
\* self.safes is free of a mine, every cell of self.mines holds one, and a cell
\* returned by make_safe_move is a cell of the board without a mine.
SafeMoveIsSafe ==
  /\ safes \cap board = {}
  /\ mines \subseteq board
  /\ (last.op = "make_safe_move" /\ last.ret # NoCell)
       => (last.ret \in Cells /\ ~is_mine(last.ret))

\* make_safe_move returned a cell after two calls that made a mine known
SafeMoveIsSafeWitness ==
  /\ last.op = "make_safe_move"
  /\ last.ret # NoCell
  /\ mines # {}
  /\ Len(knowledge) > 1

\* C3 (disjointness): under truthful observations self.mines and self.safes
\* share no cell, after every call and at every step of the loop.
Disjointness == mines \cap safes = {}

\* in the middle of the marking loops with both sets grown by deduction
DisjointnessWitness ==
  /\ pc \in {"safes", "mines"}
  /\ mines # {}
  /\ safes \ moves_made # {}

\* C4 (termination, truthful input): every add_knowledge call that was started
\* reaches the pass that finds nothing new and returns.
Termination == (pc # "idle") ~> (pc = "idle")

\* a call that marked a mine and derived sentences has returned
TerminationWitness ==
  /\ pc = "idle"
  /\ nobs > 1
  /\ Len(knowledge) > nobs
  /\ mines # {}

\* C5 (termination, any well-formed input): every add_knowledge call with a
\* cell of the board and a count of 0 or more returns, also when the counts
\* agree with no mine placement.
ObserveReturns == [](last.op = "add_knowledge" => <>(pc = "idle"))

\* two sentences without cells whose counts differ: empty sentences are never
\* narrowed, and no finite set of them is closed under the resolution step, so
\* from here every pass appends a sentence and the while loop has no exit
Diverging ==
  \E i, j \in 1 .. Len(knowledge) :
    /\ knowledge[i].cells = {}
    /\ knowledge[j].cells = {}
    /\ knowledge[i].count # knowledge[j].count

\* the MaxKB bound of Resolve only ever cuts off a call that diverges
BoundOnlyWhenDiverging ==
  (pc = "resolve" /\ Len(knowledge) + Len(newly_inferred(knowledge)) > MaxKB)
    => Diverging

\* C6 as stated (end-to-end scenario): on the 3x3 board with its only mine at
\* (2,2), after add_knowledge((0,0), 0) on a fresh engine every cell but (2,2)
\* is in self.safes and make_safe_move returns one of the 7 unplayed ones.
ScenarioAllSafe ==
  (nobs = 1 /\ pc = "idle" /\ moves_made = {<<0, 0>>})
    => /\ safes = Cells \ {<<2, 2>>}
       /\ last.op = "make_safe_move" => last.ret \in Cells \ {<<0, 0>>, <<2, 2>>}

\* C6 as amended: after that call self.safes is (0,0) and its three
\* neighbours, and make_safe_move returns one of the three neighbours.
ScenarioNeighboursSafe ==
  (nobs = 1 /\ pc = "idle" /\ moves_made = {<<0, 0>>})
    => /\ safes = {<<0, 0>>, <<0, 1>>, <<1, 0>>, <<1, 1>>}
       /\ last.op = "make_safe_move" => last.ret \in {<<0, 1>>, <<1, 0>>, <<1, 1>>}

\* the call add_knowledge((0,0), 0) has returned and make_safe_move was asked
ScenarioWitness ==
  /\ nobs = 1
  /\ pc = "idle"
  /\ moves_made = {<<0, 0>>}
  /\ last.op = "make_safe_move"

\* C7 (make_safe_move): the cell returned is in self.safes and not in
\* self.moves_made, and None is returned exactly when there is no such cell.
SafeMoveContract ==
  last.op = "make_safe_move"
    => IF safes \ moves_made = {}
         THEN last.ret = NoCell
         ELSE last.ret \in safes /\ last.ret \notin moves_made

\* a cell was returned while other safe cells had been played already
SafeMoveContractWitness ==
  /\ last.op = "make_safe_move"
  /\ last.ret # NoCell
  /\ Cardinality(moves_made) > 1

\* C8 (make_random_move): the cell returned is a cell of the board that is
\* neither played nor a known mine, None is returned exactly when there is no
\* such cell, and when self.safes = self.moves_made and every other cell is a
\* known mine both move queries return None.
RandomMoveContract ==
  /\ last.op = "make_random_move"
       => IF \E cell \in Cells : cell \notin moves_made /\ cell \notin mines
            THEN /\ last.ret \in Cells
                 /\ last.ret \notin moves_made
                 /\ last.ret \notin mines
            ELSE last.ret = NoCell
  /\ ( /\ last.op \in {"make_safe_move", "make_random_move"}
       /\ safes = moves_made
       /\ Cells \ moves_made \subseteq mines )
       => last.ret = NoCell

\* make_random_move returned None on a board whose cells are all played or
\* known mines
RandomMoveContractWitness ==
  /\ last.op = "make_random_move"
  /\ last.ret = NoCell
  /\ safes = moves_made
  /\ moves_made # {}
  /\ mines # {}
  /\ Cells \ moves_made \subseteq mines

\* C9 (queries are read-only): a call of make_safe_move or make_random_move
\* leaves moves_made, mines, safes and every sentence unchanged.
QueriesReadOnly ==
  [][last'.op \in {"make_safe_move", "make_random_move"} => engine' = engine]_vars

\* a query answered with a cell on an engine that holds sentences
QueriesReadOnlyWitness ==
  /\ last.op \in {"make_safe_move", "make_random_move"}
  /\ last.ret # NoCell
  /\ knowledge # <<>>
  /\ safes # {}

\* C10 (idempotence): in every engine state and for every cell, mark_safe
\* called twice gives the state that one call gives, and so does mark_mine; the
\* second mark_mine reduces no count.
ReportsIdempotent ==
  \A cell \in Cells :
    /\ mark_safe(mark_safe(Engine, cell), cell) = mark_safe(Engine, cell)
    /\ mark_mine(mark_mine(Engine, cell), cell) = mark_mine(Engine, cell)

\* add_knowledge((0,0), 1) on a 2x2 board, then mark_mine((0,1)) twice: the
\* sentence has lost (0,1) and its count was reduced once
ReportsIdempotentWitness ==
  /\ last.op = "mark_mine"
  /\ last.again
  /\ last.cell = <<0, 1>>
  /\ mines = {<<0, 1>>}
  /\ knowledge = <<Sentence({<<1, 0>>, <<1, 1>>}, 0)>>

\* C11 (monotone growth): no step of any call, add_knowledge, mark_safe,
\* mark_mine or a query, takes a cell out of moves_made, mines or safes.
MonotoneGrowth ==
  [][/\ moves_made \subseteq moves_made'
     /\ mines \subseteq mines'
     /\ safes \subseteq safes']_vars

\* all three sets have grown, by calls of both kinds, and a cell is in both
\* certainty sets
MonotoneGrowthWitness ==
  /\ nobs > 0
  /\ nrep > 0
  /\ moves_made # {}
  /\ mines \cap safes # {}

\* C12 (closure of certainty extraction): when an add_knowledge call has
\* returned, no sentence with cells has count 0 or a count equal to the number
\* of its cells, so no held sentence decides a cell that was not reported.
ExtractionClosed ==
  (pc = "idle" /\ last.op = "add_knowledge")
    => \A k \in 1 .. Len(knowledge) :
         knowledge[k].cells # {}
           => /\ knowledge[k].count # 0
              /\ knowledge[k].count # Cardinality(knowledge[k].cells)

\* a call that marked cells has returned and left an undecided sentence
ExtractionClosedWitness ==
  /\ pc = "idle"
  /\ last.op = "add_knowledge"
  /\ mines # {}
  /\ safes \ moves_made # {}
  /\ \E k \in 1 .. Len(knowledge) : knowledge[k].cells # {}

\* s is one of the sentences of kb, by Sentence.__eq__
Holds(kb, s) == \E k \in 1 .. Len(kb) : kb[k] = s

\* when an add_knowledge call has returned, every two unequal sentences of
\* which one has all the cells of the other have their difference in the
\* knowledge base
ResolutionClosed ==
  (pc = "idle" /\ last.op = "add_knowledge")
    => \A i, j \in 1 .. Len(knowledge) :
         (knowledge[i] # knowledge[j] /\ knowledge[j].cells \subseteq knowledge[i].cells)
           => Holds(knowledge, Sentence(knowledge[i].cells \ knowledge[j].cells,
                                        knowledge[i].count - knowledge[j].count))

\* the while loop of the current call was started on a knowledge base that
\* holds {(1,1),(1,2),(2,1)} = 1 and {(1,1),(1,2)} = 1
StartedOnPair ==
  /\ last.op = "add_knowledge"
  /\ Holds(last.kb, Sentence({<<1, 1>>, <<1, 2>>, <<2, 1>>}, 1))
  /\ Holds(last.kb, Sentence({<<1, 1>>, <<1, 2>>}, 1))

\* such a call ends with (2,1) in self.safes
PairEndsSafe == (StartedOnPair /\ pc = "idle") => <<2, 1>> \in safes

\* C13 (closure of subset resolution): at the return of add_knowledge the
\* knowledge base is closed under the subset rule; a resolution pass on a
\* knowledge base holding {(1,1),(1,2),(2,1)} = 1 and {(1,1),(1,2)} = 1 leaves
\* {(2,1)} = 0 in it, and the call started on them ends with (2,1) in safes.
SubsetResolutionClosed ==
  [][/\ ResolutionClosed'
     /\ PairEndsSafe'
     /\ ( /\ pc = "resolve"
          /\ Holds(knowledge, Sentence({<<1, 1>>, <<1, 2>>, <<2, 1>>}, 1))
          /\ Holds(knowledge, Sentence({<<1, 1>>, <<1, 2>>}, 1)) )
          => Holds(knowledge', Sentence({<<2, 1>>}, 0))]_vars

\* a call started on the two sentences has returned, with (2,1) marked safe
\* by deduction
SubsetResolutionClosedWitness ==
  /\ StartedOnPair
  /\ pc = "idle"
  /\ <<2, 1>> \in safes \ moves_made

\* C14 (deduplication of derived sentences): a sentence appended by a
\* resolution pass is equal to no sentence that is in the knowledge base when
\* it is appended, neither an older one nor one appended before it in the same
\* pass.
DerivedAppendedOnce ==
  [][(pc = "resolve" /\ pc' # "resolve")
       => \A k \in Len(knowledge) + 1 .. Len(knowledge') :
            \A j \in 1 .. k - 1 : knowledge'[j] # knowledge'[k]]_vars

\* C15 (certainty is propagated into all sentences): when an add_knowledge
\* call has returned, no sentence of the knowledge base, the one built from the
\* neighbours of the observed cell included, has a cell that is in self.safes
\* or in self.mines.
CertaintyPropagated ==
  (pc = "idle" /\ last.op = "add_knowledge")
    => \A k \in 1 .. Len(knowledge) :
         knowledge[k].cells \cap (safes \cup mines) = {}

\* what a step is to do to the sentences when it reports cell: those that have
\* the cell lose it and their count goes down by drop, the others stay, and
\* no sentence is added or removed
Narrowed(cell, drop) ==
  /\ Len(knowledge') = Len(knowledge)
  /\ \A k \in 1 .. Len(knowledge) :
       IF cell \in knowledge[k].cells
         THEN /\ knowledge'[k].cells = knowledge[k].cells \ {cell}
              /\ knowledge'[k].count = knowledge[k].count - drop
         ELSE knowledge'[k] = knowledge[k]

MineReported(cell) ==
  /\ mines' = mines \cup {cell}
  /\ safes' = safes
  /\ moves_made' = moves_made
  /\ Narrowed(cell, 1)

SafeReported(cell) ==
  /\ safes' = safes \cup {cell}
  /\ mines' = mines
  /\ moves_made' = moves_made
  /\ Narrowed(cell, 0)

\* C16 (effect and frame of the reports): every call of mark_mine, by the
\* driver or by the loop, adds the cell to self.mines and takes it out of
\* exactly the sentences that have it, lowering their count by 1; every call
\* of mark_safe adds the cell to self.safes and takes it out of the sentences
\* with the count unchanged; the other sentences, the other set, moves_made
\* and the number of sentences stay as they are.
ReportEffects ==
  [][/\ (last'.op = "mark_mine" /\ nrep' = nrep + 1) => MineReported(last'.cell)
     /\ (last'.op = "mark_safe" /\ nrep' = nrep + 1) => SafeReported(last'.cell)
     /\ pc = "mines" => \E m \in pending : pending' = pending \ {m} /\ MineReported(m)
     /\ pc = "safes" => \E c \in pending : pending' = pending \ {c} /\ SafeReported(c)]_vars

\* add_knowledge((0,0), 1) on a 2x2 board, then mark_safe((0,1)): the sentence
\* has lost (0,1) and kept its count
ReportEffectsWitness ==
  /\ last.op = "mark_safe"
  /\ last.cell = <<0, 1>>
  /\ safes = {<<0, 0>>, <<0, 1>>}
  /\ mines = {}
  /\ knowledge = <<Sentence({<<1, 0>>, <<1, 1>>}, 1)>>

\* the two conclusions of one sentence, as the claim states them
ConcludesRight(s) ==
  /\ known_mines(s).defined = (s.count = Cardinality(s.cells))
  /\ known_mines(s).defined => known_mines(s).cells = s.cells
  /\ known_safes(s).defined = (s.count = 0)
  /\ known_safes(s).defined => known_safes(s).cells = s.cells

\* C17 (conclusions of a sentence): for every sentence of the knowledge base,
\* known_mines() is the whole cell set when the count equals the number of
\* cells and None otherwise, and known_safes() is the whole cell set when the
\* count is 0 and None otherwise; {(0,0),(0,1)} = 2 gives known_mines() =
\* {(0,0),(0,1)}, a sentence without cells and with count 0 gives the empty
\* set from both; and the steps of add_knowledge that ask a sentence for its
\* conclusions go on to mark exactly its cells when the answer is a non-empty
\* set, leaving every sentence as it is.
ConclusionsRight ==
  [][/\ \A k \in 1 .. Len(knowledge) : ConcludesRight(knowledge[k])
     /\ known_mines(Sentence({<<0, 0>>, <<0, 1>>}, 2)) = Conclusion({<<0, 0>>, <<0, 1>>})
     /\ known_safes(Sentence({<<0, 0>>, <<0, 1>>}, 2)) = NoConclusion
     /\ known_mines(Sentence({}, 0)) = Conclusion({})
     /\ known_safes(Sentence({}, 0)) = Conclusion({})
     /\ pc = "scan" =>
          /\ knowledge' = knowledge
          /\ (pc' = "safes") = (knowledge[idx].count = 0 /\ knowledge[idx].cells # {})
          /\ pc' = "safes" => pending' = knowledge[idx].cells
     /\ pc = "chk_mines" =>
          /\ knowledge' = knowledge
          /\ (pc' = "mines") = (/\ knowledge[idx].count = Cardinality(knowledge[idx].cells)
                                 /\ knowledge[idx].cells # {})
          /\ pc' = "mines" => pending' = knowledge[idx].cells]_vars

\* add_knowledge((1,1), 2), mark_safe((1,0)), then a further add_knowledge:
\* the loop has asked {(0,0),(0,1)} = 2 for its mines and is to mark both
ConclusionsRightWitness ==
  /\ pc = "mines"
  /\ idx = 1
  /\ knowledge[1] = Sentence({<<0, 0>>, <<0, 1>>}, 2)
  /\ pending = {<<0, 0>>, <<0, 1>>}
  /\ mines = {}

Dist(a, b) == IF a >= b THEN a - b ELSE b - a

\* the cells of the board at most one row and one column away from cell,
\* other than cell
Around(cell) ==
  {c \in (0 .. height - 1) \X (0 .. width - 1) :
     Dist(c[1], cell[1]) <= 1 /\ Dist(c[2], cell[2]) <= 1} \ {cell}

\* on the 3 x 3 board: 3 cells around a corner, 8 around the centre, 5 around
\* the other cells
AroundSize(cell) ==
  IF cell = <<1, 1>> THEN 8
  ELSE IF cell[1] # 1 /\ cell[2] # 1 THEN 3
  ELSE 5

\* C18 (ingestion step of add_knowledge): when the while loop is about to
\* start, the cell has been added to moves_made and to self.safes, and the
\* knowledge base is one sentence longer; the sentence appended has exactly
\* the cells of the board at most one row and one column away from the cell,
\* the cell excepted (3 in a corner, 5 on an edge, 8 inside), and the count
\* that was passed; the sentences before it are the old ones without the cell.
IngestionStep ==
  [][(pc = "idle" /\ pc' = "scan") =>
       LET cell == last'.cell
           n == Len(knowledge)
       IN  /\ last'.op = "add_knowledge"
           /\ moves_made' = moves_made \cup {cell}
           /\ safes' = safes \cup {cell}
           /\ mines' = mines
           /\ idx' = 1
           /\ Len(knowledge') = n + 1
           /\ knowledge'[n + 1].cells = Around(cell)
           /\ Cardinality(knowledge'[n + 1].cells) = AroundSize(cell)
           /\ knowledge'[n + 1].count = last'.count
           /\ \A k \in 1 .. n :
                /\ knowledge'[k].cells = knowledge[k].cells \ {cell}
                /\ knowledge'[k].count = knowledge[k].count]_vars

\* the centre of the 3 x 3 board has just been ingested after another cell:
\* its sentence has the 8 other cells
IngestionStepWitness ==
  /\ pc = "scan"
  /\ idx = 1
  /\ last.op = "add_knowledge"
  /\ last.cell = <<1, 1>>
  /\ Len(knowledge) > 1
  /\ knowledge[Len(knowledge)] = Sentence(Cells \ {<<1, 1>>}, 1)
  /\ <<1, 1>> \in moves_made \cap safes

\* C19 (played cells are safe cells): in every state, inside add_knowledge
\* included, moves_made is a subset of self.safes, so a played cell that is
\* in self.mines is in self.safes as well, and the cell make_safe_move
\* returned is not a played cell.
PlayedAreSafe ==
  /\ moves_made \subseteq safes
  /\ \A c \in moves_made \cap mines : c \in safes
  /\ (last.op = "make_safe_move" /\ last.ret # NoCell)
       => last.ret \in safes \ moves_made

\* a cell reported as a mine has been played, and make_safe_move has then
\* offered another cell
PlayedAreSafeWitness ==
  /\ moves_made \cap mines # {}
  /\ safes \ moves_made # {}
  /\ last.op = "make_safe_move"
  /\ last.ret # NoCell

====
